---- MODULE Spec2Model ----
(***************************************************************************)
(* Model of commands.rs: the command-tree builder (src/parser/builder.rs), *)
(* the matcher / verifier / dispatcher the builder's trees are made for,   *)
(* and the interactive loop of examples/readline/main.rs.                  *)
(*                                                                         *)
(* Strings are sequences of one-character strings, so that equality,       *)
(* prefix and lexical order are computed and not assumed.  Rc<T> is an     *)
(* address into `heap`; cloning an Rc copies the address.                  *)
(***************************************************************************)
EXTENDS Integers, Sequences, FiniteSets, TLC

VARIABLES
    commands,   \* CommandTree.commands: the descriptions added so far
    cmd,        \* the Command description under construction (None: none)
    heap,       \* the nodes allocated by Rc::new, by address
    root,       \* main's `root`: address of the RootNode (0 before finalize)
    pc,         \* position of main: "build", "prompt", "tokenize", "parse",
                \* "verify", "execute", "newline", "done"
    line,       \* the raw line readline returned
    tokens,     \* what tokenize returned for it
    parser,     \* the Parser of this line (its parse state)
    result,     \* outcome of the last stage that ran for this line
    stages,     \* the stages that ran for this line, in order, each with
                \* whether it succeeded
    param,      \* the Parameter description under construction (None: none)
    log         \* history, kept when log.on: the outcome of each parse and
                \* the priority and kind calls made on the builder, in order

vars == <<commands, cmd, param, heap, root, pc, line, tokens, parser, result, stages, log>>

None == [none |-> TRUE]

Some(x) == [some |-> x]

IsSome(o) == "some" \in DOMAIN o

-----------------------------------------------------------------------------
(* Bounds of the model *)

\* commands added to a tree of bare commands
MaxCommands == 3

\* commands added to a tree by the builder alone
MaxBuilt == 2

\* parameters added to a command
MaxParams == 2

\* tokens of a line typed against a tree of bare commands
MaxTokens == 1

\* tokens that follow the command word of a line
MaxArgs == 3

\* lines parsed against one tree while their outcomes are recorded
MaxLines == 3

\* tokens that follow the command word when parameters are given priorities
MaxWords == 2

\* priority and kind calls made while one command is described
MaxCalls == 3

\* calls of CommandTree::finalize on one tree
MaxRoots == 2

-----------------------------------------------------------------------------
(* Strings *)

\* The characters used, in ASCII order.
Alphabet == <<" ", "\"", "-", "a", "b", "e", "f", "g", "h", "l", "o", "r", "s", "t", "v", "w">>

Code(c) == CHOOSE i \in 1..Len(Alphabet) : Alphabet[i] = c

\* str::starts_with
IsPrefix(p, s) == Len(p) <= Len(s) /\ SubSeq(s, 1, Len(p)) = p

\* Ord for str: lexicographic comparison, a < b
RECURSIVE StrLess(_, _)
StrLess(a, b) ==
    IF b = <<>> THEN FALSE
    ELSE IF a = <<>> THEN TRUE
    ELSE IF Head(a) # Head(b) THEN Code(Head(a)) < Code(Head(b))
    ELSE StrLess(Tail(a), Tail(b))

sShow == <<"s", "h", "o", "w">>

sShowall == <<"s", "h", "o", "w", "a", "l", "l">>

sSh == <<"s", "h">>

sFoo == <<"f", "o", "o">>

sSet == <<"s", "e", "t">>

sSe == <<"s", "e">>

sLe == <<"-", "-", "l", "e">>

sLevel == <<"-", "-", "l", "e", "v", "e", "l">>

sVerbose == <<"-", "-", "v", "e", "r", "b", "o", "s", "e">>

sV == <<"-", "v">>

sL == <<"-", "l">>

sTarget == <<"t", "a", "r", "g", "e", "t">>

sA == <<"a">>

sB == <<"b">>

-----------------------------------------------------------------------------
(* Node priorities, the constants of parser/nodes.rs the builder imports   *)
(* through `use super::nodes::*`: a parameter ranks below a command.       *)

PRIORITY_PARAMETER == -10

PRIORITY_DEFAULT == 0

-----------------------------------------------------------------------------
(* builder.rs: descriptions *)

ParameterKinds == {"Flag", "Named", "Simple"}

\* Command::new
CommandNew(name) ==
    [hidden |-> FALSE, priority |-> PRIORITY_DEFAULT, name |-> name,
     help_text |-> None, parameters |-> <<>>, wrapped_root |-> None]

\* Command::hidden
CommandHidden(c, hidden) == [c EXCEPT !.hidden = hidden]

\* Command::priority
CommandPriority(c, priority) == [c EXCEPT !.priority = priority]

\* Command::help
CommandHelp(c, help_text) == [c EXCEPT !.help_text = Some(help_text)]

\* Command::parameter
CommandParameter(c, parameter) ==
    [c EXCEPT !.parameters = Append(@, parameter)]

\* Command::wraps
CommandWraps(c, wrapped_root) == [c EXCEPT !.wrapped_root = Some(wrapped_root)]

\* Command::finalize: a clone of the description
CommandFinalize(c) == c

\* Parameter::new
ParameterNew(name) ==
    [hidden |-> FALSE, priority |-> None, name |-> name, repeatable |-> FALSE,
     aliases |-> <<>>, help_text |-> None, required |-> FALSE,
     parameter_kind |-> "Simple"]

\* Parameter::hidden
ParameterHidden(p, hidden) == [p EXCEPT !.hidden = hidden]

\* Parameter::priority
ParameterPriority(p, priority) == [p EXCEPT !.priority = Some(priority)]

\* Parameter::repeatable
ParameterRepeatable(p, repeatable) == [p EXCEPT !.repeatable = repeatable]

\* Parameter::alias
ParameterAlias(p, alias) == [p EXCEPT !.aliases = Append(@, alias)]

\* Parameter::help
ParameterHelp(p, help_text) == [p EXCEPT !.help_text = Some(help_text)]

\* Parameter::required
ParameterRequired(p, required) == [p EXCEPT !.required = required]

\* Parameter::kind that forgets the priority given before it
ParameterKind_resets(p, kind) ==
    [p EXCEPT !.parameter_kind = kind, !.priority = None]

\* Parameter::kind
ParameterKind(p, kind) == [p EXCEPT !.parameter_kind = kind]

\* Parameter::finalize: a clone of the description
ParameterFinalize(p) == p

\* Option::unwrap_or
UnwrapOr(o, d) == IF IsSome(o) THEN o.some ELSE d

-----------------------------------------------------------------------------
(* parser/nodes.rs: the node constructors the builder calls.  A parameter  *)
(* node is built from name, help text, hidden, priority, successors,       *)
(* repeatable, repeat marker and required: no constructor takes aliases,   *)
(* so a constructed node has none.                                         *)

\* Rc::new: allocate v, return the grown heap and the new address
RcNew(h, v) == [heap |-> Append(h, v), addr |-> Len(h) + 1]

\* RootNode::new
RootNodeNew(successors) == [kind |-> "Root", successors |-> successors]

\* CommandNode::new
CommandNodeNew(name, help_text, hidden, priority, successors, handler, parameters) ==
    [kind |-> "Command", name |-> name, help_text |-> help_text,
     hidden |-> hidden, priority |-> priority, successors |-> successors,
     handler |-> handler, parameters |-> parameters]

\* The shape shared by the three parameter nodes
ParameterNodeNew(kind, name, help_text, hidden, priority, successors, repeatable, repeat_marker, required) ==
    [kind |-> kind, name |-> name, aliases |-> <<>>, help_text |-> help_text,
     hidden |-> hidden, priority |-> priority, successors |-> successors,
     repeatable |-> repeatable, repeat_marker |-> repeat_marker,
     required |-> required]

\* FlagParameterNode::new
FlagParameterNodeNew(name, help_text, hidden, priority, successors, repeatable, repeat_marker, required) ==
    ParameterNodeNew("Flag", name, help_text, hidden, priority, successors,
                     repeatable, repeat_marker, required)

\* NamedParameterNode::new
NamedParameterNodeNew(name, help_text, hidden, priority, successors, repeatable, repeat_marker, required) ==
    ParameterNodeNew("Named", name, help_text, hidden, priority, successors,
                     repeatable, repeat_marker, required)

\* SimpleParameterNode::new
SimpleParameterNodeNew(name, help_text, hidden, priority, successors, repeatable, repeat_marker, required) ==
    ParameterNodeNew("Simple", name, help_text, hidden, priority, successors,
                     repeatable, repeat_marker, required)

-----------------------------------------------------------------------------
(* builder.rs: CommandTree::finalize and its helpers.  A build state `b`   *)
(* is [heap, parameters, successors]: the heap and the two vectors the     *)
(* helpers push to.                                                        *)

\* PushBoth that allocates the node once for each vector
PushBoth_copy(b, node) ==
    LET r == RcNew(b.heap, node)
        c == RcNew(r.heap, node)
    IN  [heap |-> c.heap,
         parameters |-> Append(b.parameters, r.addr),
         successors |-> Append(b.successors, c.addr)]

\* push the freshly allocated node's address to both vectors
PushBoth(b, node) ==
    LET r == RcNew(b.heap, node)
    IN  [heap |-> r.heap,
         parameters |-> Append(b.parameters, r.addr),
         successors |-> Append(b.successors, r.addr)]

\* build_flag_parameter with repeatable and required in each other's place
build_flag_parameter_swapped(b, parameter) ==
    PushBoth(b, FlagParameterNodeNew(parameter.name, parameter.help_text,
                                     parameter.hidden,
                                     UnwrapOr(parameter.priority, PRIORITY_DEFAULT),
                                     <<>>, parameter.required, None,
                                     parameter.repeatable))

\* CommandTree::build_flag_parameter
build_flag_parameter(b, parameter) ==
    PushBoth(b, FlagParameterNodeNew(parameter.name, parameter.help_text,
                                     parameter.hidden,
                                     UnwrapOr(parameter.priority, PRIORITY_DEFAULT),
                                     <<>>, parameter.repeatable, None,
                                     parameter.required))

\* build_named_parameter that leaves `required` out
build_named_parameter_optional(b, parameter) ==
    PushBoth(b, NamedParameterNodeNew(parameter.name, parameter.help_text,
                                      parameter.hidden,
                                      UnwrapOr(parameter.priority, PRIORITY_PARAMETER),
                                      <<>>, parameter.repeatable, None,
                                      FALSE))

\* build_named_parameter that builds the node of build_flag_parameter
build_named_parameter_as_flag(b, parameter) ==
    PushBoth(b, FlagParameterNodeNew(parameter.name, parameter.help_text,
                                     parameter.hidden,
                                     UnwrapOr(parameter.priority, PRIORITY_PARAMETER),
                                     <<>>, parameter.repeatable, None,
                                     parameter.required))

\* build_named_parameter that leaves the priority given by the caller out
build_named_parameter_no_priority(b, parameter) ==
    PushBoth(b, NamedParameterNodeNew(parameter.name, parameter.help_text,
                                      parameter.hidden, PRIORITY_PARAMETER,
                                      <<>>, parameter.repeatable, None,
                                      parameter.required))

\* CommandTree::build_named_parameter
build_named_parameter(b, parameter) ==
    PushBoth(b, NamedParameterNodeNew(parameter.name, parameter.help_text,
                                      parameter.hidden,
                                      UnwrapOr(parameter.priority, PRIORITY_PARAMETER),
                                      <<>>, parameter.repeatable, None,
                                      parameter.required))

\* build_simple_parameter with the default priority of build_flag_parameter
build_simple_parameter_default(b, parameter) ==
    PushBoth(b, SimpleParameterNodeNew(parameter.name, parameter.help_text,
                                       parameter.hidden,
                                       UnwrapOr(parameter.priority, PRIORITY_DEFAULT),
                                       <<>>, parameter.repeatable, None,
                                       parameter.required))

\* CommandTree::build_simple_parameter
build_simple_parameter(b, parameter) ==
    PushBoth(b, SimpleParameterNodeNew(parameter.name, parameter.help_text,
                                       parameter.hidden,
                                       UnwrapOr(parameter.priority, PRIORITY_PARAMETER),
                                       <<>>, parameter.repeatable, None,
                                       parameter.required))

\* the match on parameter_kind in build_command
build_parameter(b, parameter) ==
    CASE parameter.parameter_kind = "Flag" -> build_flag_parameter(b, parameter)
      [] parameter.parameter_kind = "Named" -> build_named_parameter(b, parameter)
      [] parameter.parameter_kind = "Simple" -> build_simple_parameter(b, parameter)

\* the loop over command.parameters in build_command
RECURSIVE build_parameters(_, _)
build_parameters(b, ps) ==
    IF ps = <<>> THEN b
    ELSE build_parameters(build_parameter(b, Head(ps)), Tail(ps))

\* build_command with the priority of the description left out
build_command_no_priority(h, command) ==
    LET b == build_parameters([heap |-> h, parameters |-> <<>>, successors |-> <<>>],
                              command.parameters)
    IN  RcNew(b.heap,
              CommandNodeNew(command.name, command.help_text, command.hidden,
                             PRIORITY_DEFAULT, b.successors, None, b.parameters))

\* build_command with every node built visible
build_command_no_hidden(h, command) ==
    LET b == build_parameters([heap |-> h, parameters |-> <<>>, successors |-> <<>>],
                              command.parameters)
    IN  RcNew(b.heap,
              CommandNodeNew(command.name, command.help_text, FALSE,
                             command.priority, b.successors, None, b.parameters))

\* build_command that attaches to every node a handler of its own
build_command_own_handler(h, command) ==
    LET b == build_parameters([heap |-> h, parameters |-> <<>>, successors |-> <<>>],
                              command.parameters)
    IN  RcNew(b.heap,
              CommandNodeNew(command.name, command.help_text, command.hidden,
                             command.priority, b.successors, Some(command.name),
                             b.parameters))

\* CommandTree::build_command: wrapped_root is not read
build_command(h, command) ==
    LET b == build_parameters([heap |-> h, parameters |-> <<>>, successors |-> <<>>],
                              command.parameters)
    IN  RcNew(b.heap,
              CommandNodeNew(command.name, command.help_text, command.hidden,
                             command.priority, b.successors, None, b.parameters))

\* the loop over self.commands in finalize; acc = [heap, successors]
RECURSIVE build_commands(_, _)
build_commands(acc, cs) ==
    IF cs = <<>> THEN acc
    ELSE LET r == build_command(acc.heap, Head(cs))
         IN  build_commands([heap |-> r.heap,
                             successors |-> Append(acc.successors, r.addr)],
                            Tail(cs))

\* finalize that rebuilds the root it returned before, when there is one
finalize_in_place(h, cs) ==
    LET acc == build_commands([heap |-> h, successors |-> <<>>], cs)
        old == {a \in DOMAIN h : h[a].kind = "Root"}
    IN  IF old = {} THEN RcNew(acc.heap, RootNodeNew(acc.successors))
        ELSE LET a == CHOOSE a \in old : TRUE
             IN  [heap |-> [acc.heap EXCEPT ![a] = RootNodeNew(acc.successors)],
                  addr |-> a]

\* CommandTree::finalize
finalize(h, cs) ==
    LET acc == build_commands([heap |-> h, successors |-> <<>>], cs)
    IN  RcNew(acc.heap, RootNodeNew(acc.successors))

-----------------------------------------------------------------------------
(* The tokenizer (commands::tokenizer::tokenize): whitespace splitting     *)
(* with quoted substrings preserved; an unterminated quote is an error.    *)

\* the scan: cur is the token being read (None between tokens)
RECURSIVE TokenizeScan(_, _, _, _)
TokenizeScan(text, cur, quoted, acc) ==
    IF text = <<>> THEN
        IF quoted THEN [ok |-> FALSE, tokens |-> <<>>]
        ELSE [ok |-> TRUE,
              tokens |-> IF IsSome(cur) THEN Append(acc, cur.some) ELSE acc]
    ELSE LET c == Head(text)
             t == Tail(text)
             sofar == IF IsSome(cur) THEN cur.some ELSE <<>>
         IN  IF c = "\"" THEN TokenizeScan(t, Some(sofar), ~quoted, acc)
             ELSE IF c = " " /\ ~quoted THEN
                 TokenizeScan(t, None, FALSE,
                              IF IsSome(cur) THEN Append(acc, cur.some) ELSE acc)
             ELSE TokenizeScan(t, Some(Append(sofar, c)), quoted, acc)

tokenize(text) == TokenizeScan(text, None, FALSE, <<>>)

\* the raw line whose tokens are ts: the tokens separated by one space
RECURSIVE JoinTokens(_)
JoinTokens(ts) ==
    IF ts = <<>> THEN <<>>
    ELSE IF Len(ts) = 1 THEN ts[1]
    ELSE ts[1] \o <<" ">> \o JoinTokens(Tail(ts))

\* sequences over S of length at most n
SeqsUpTo(S, n) == UNION {[1..k -> S] : k \in 0..n}

\* a line the tokenizer rejects: an opening quote never closed
BadLine == <<"\"">> \o sSh

\* the lines of at most MaxTokens tokens of S, and the bad line
LinesOver(S) == {JoinTokens(ts) : ts \in SeqsUpTo(S, MaxTokens)} \cup {BadLine}

\* the empty line, the bad line, each token of S alone, and the command
\* word followed by at most MaxArgs tokens of S
LinesFor(command, S) ==
    {JoinTokens(<<command>> \o ts) : ts \in SeqsUpTo(S, MaxArgs)}
    \cup S \cup {<<>>, BadLine}

-----------------------------------------------------------------------------
(* The matcher (Parser::parse).  A parse state is [frontier, bindings,     *)
(* matched, trace]; the frontier is the list of node addresses eligible    *)
(* for the next token, and the trace lists the nodes matched so far, each  *)
(* with the token and the frontier it was matched in and the value bound.  *)

Range(f) == {f[i] : i \in DOMAIN f}

IsParameter(n) == n.kind \in ParameterKinds

\* a node matched through a fixed literal: everything but Root and Simple
IsLiteral(n) == n.kind \in {"Command", "Wrapper", "Flag", "Named"}

\* the name and the aliases of a node
Literals(n) == {n.name} \cup (IF IsParameter(n) THEN Range(n.aliases) ELSE {})

ExactMatch(n, token) == IsLiteral(n) /\ token \in Literals(n)

PrefixMatch(n, token) == IsLiteral(n) /\ \E s \in Literals(n) : IsPrefix(token, s)

\* LiteralMatches with the prefix matches kept beside the exact ones
LiteralMatches_all(h, frontier, token) ==
    {a \in Range(frontier) : ExactMatch(h[a], token) \/ PrefixMatch(h[a], token)}

\* step 1, literals: the exact matches, or the prefix matches when none is exact
LiteralMatches(h, frontier, token) ==
    LET exact == {a \in Range(frontier) : ExactMatch(h[a], token)}
    IN  IF exact # {} THEN exact
        ELSE {a \in Range(frontier) : PrefixMatch(h[a], token)}

\* step 1: a Simple parameter of the frontier is a candidate unless a literal
\* match of equal or higher priority outranks it
Candidates(h, frontier, token) ==
    LET lit == LiteralMatches(h, frontier, token)
    IN  lit \cup {a \in Range(frontier) :
                    /\ h[a].kind = "Simple"
                    /\ \A l \in lit : h[l].priority < h[a].priority}

\* TopPriority that keeps only the first declared of the tied candidates
TopPriority_first(h, C) ==
    LET T == {a \in C : \A b \in C : h[b].priority <= h[a].priority}
    IN  {a \in T : \A b \in T : a <= b}

\* the candidates at the highest priority present
TopPriority(h, C) == {a \in C : \A b \in C : h[b].priority <= h[a].priority}

\* a precedes b in a listing: priority descending, then name ascending
ListedBefore(h, a, b) ==
    \/ h[a].priority > h[b].priority
    \/ h[a].priority = h[b].priority /\ StrLess(h[a].name, h[b].name)

\* stable insertion of a into the sorted list s
RECURSIVE InsertSorted(_, _, _)
InsertSorted(h, s, a) ==
    IF s = <<>> THEN <<a>>
    ELSE IF ListedBefore(h, a, Head(s)) THEN <<a>> \o s
    ELSE <<Head(s)>> \o InsertSorted(h, Tail(s), a)

RECURSIVE SortListing(_, _)
SortListing(h, s) ==
    IF s = <<>> THEN <<>>
    ELSE InsertSorted(h, SortListing(h, SubSeq(s, 1, Len(s) - 1)), s[Len(s)])

\* step 2: the visible nodes of the frontier, ordered for a suggestion list
AcceptableOptions(h, frontier) ==
    SortListing(h, SelectSeq(frontier, LAMBDA a : ~h[a].hidden))

NoMatches(token, acceptable) ==
    [error |-> "NoMatches", token |-> token, nodes |-> acceptable]

AmbiguousMatch(token, matches) ==
    [error |-> "AmbiguousMatch", token |-> token, nodes |-> matches]

\* Parser::new
ParserNew(h, r) ==
    [frontier |-> h[r].successors, bindings |-> <<>>, matched |-> 0,
     trace |-> <<>>]

\* Bind that overwrites what a repeatable parameter had
Bind_overwrite(bindings, n, v) ==
    [x \in DOMAIN bindings \cup {n.name} |->
        IF x = n.name THEN <<v>> ELSE bindings[x]]

\* step 4: record value v for parameter node n
Bind(bindings, n, v) ==
    IF n.repeatable /\ n.name \in DOMAIN bindings
    THEN [bindings EXCEPT ![n.name] = Append(@, v)]
    ELSE [x \in DOMAIN bindings \cup {n.name} |->
            IF x = n.name THEN <<v>> ELSE bindings[x]]

\* step 5 for a parameter at address a: its successors, then the siblings
\* still eligible; a itself stays only if it is repeatable
AdvanceFrontier(h, frontier, a) ==
    h[a].successors \o
    SelectSeq(frontier, LAMBDA x : x # a \/ h[a].repeatable)

\* the value a Flag binds, and the value a Named or Simple binds
FlagValue == [flag |-> TRUE]

TextValue(token) == [text |-> token]

\* the trace entry of a match of node a on `token` in parse state ps
Matched(ps, a, token, value) ==
    [node |-> a, token |-> token, frontier |-> ps.frontier, value |-> value]

\* steps 4 and 5 for a parameter at address a bound to value v
BindParameter(h, ps, a, token, v) ==
    [ps EXCEPT !.frontier = AdvanceFrontier(h, @, a),
               !.bindings = Bind(@, h[a], v),
               !.trace = Append(@, Matched(ps, a, token, Some(v)))]

\* steps 1-5 for the first of `toks`: [ok, state, rest, error]
Advance(h, ps, toks) ==
    LET token == Head(toks)
        C == Candidates(h, ps.frontier, token)
        top == TopPriority(h, C)
        a == CHOOSE x \in top : TRUE
        Fail(e) == [ok |-> FALSE, state |-> ps, rest |-> toks, error |-> e]
        Ok(st, rest) == [ok |-> TRUE, state |-> st, rest |-> rest, error |-> None]
    IN  IF C = {} THEN
            Fail(NoMatches(token, AcceptableOptions(h, ps.frontier)))
        ELSE IF Cardinality(top) > 1 THEN
            Fail(AmbiguousMatch(token, SelectSeq(ps.frontier, LAMBDA x : x \in top)))
        ELSE CASE h[a].kind \in {"Command", "Wrapper"} ->
                    Ok([ps EXCEPT !.frontier = h[a].successors,
                                  !.matched = a,
                                  !.trace = Append(@, Matched(ps, a, token, None))],
                       Tail(toks))
               [] h[a].kind = "Flag" ->
                    Ok(BindParameter(h, ps, a, token, FlagValue), Tail(toks))
               [] h[a].kind = "Named" ->
                    IF Len(toks) < 2
                    THEN Fail(NoMatches(<<>>, AcceptableOptions(h, ps.frontier)))
                    ELSE Ok(BindParameter(h, ps, a, token, TextValue(toks[2])),
                            Tail(Tail(toks)))
               [] h[a].kind = "Simple" ->
                    Ok(BindParameter(h, ps, a, token, TextValue(token)), Tail(toks))

\* Parser::parse: one Advance per token until the tokens are exhausted or one fails
RECURSIVE parse(_, _, _)
parse(h, ps, toks) ==
    IF toks = <<>> THEN [ok |-> TRUE, state |-> ps, error |-> None]
    ELSE LET r == Advance(h, ps, toks)
         IN  IF r.ok THEN parse(h, r.state, r.rest)
             ELSE [ok |-> FALSE, state |-> r.state, error |-> r.error]

-----------------------------------------------------------------------------
(* The verifier (Parser::verify) and the dispatcher (Parser::execute) *)

\* MissingRequiredNames that takes the bound parameters for the unbound ones
MissingRequiredNames_inverted(h, ps) ==
    IF ps.matched = 0 THEN <<>>
    ELSE LET missing == SelectSeq(h[ps.matched].parameters,
                                  LAMBDA a : /\ h[a].required
                                             /\ h[a].name \in DOMAIN ps.bindings)
         IN  [i \in 1..Len(missing) |-> h[missing[i]].name]

\* the names of the required parameters of the matched command left unbound,
\* in declaration order
MissingRequiredNames(h, ps) ==
    IF ps.matched = 0 THEN <<>>
    ELSE LET missing == SelectSeq(h[ps.matched].parameters,
                                  LAMBDA a : /\ h[a].required
                                             /\ h[a].name \notin DOMAIN ps.bindings)
         IN  [i \in 1..Len(missing) |-> h[missing[i]].name]

MissingRequired(names) == [error |-> "MissingRequired", names |-> names]

verify(h, ps) ==
    LET names == MissingRequiredNames(h, ps)
    IN  IF names = <<>> THEN [ok |-> TRUE, error |-> None]
        ELSE [ok |-> FALSE, error |-> MissingRequired(names)]

\* the command a wrapper's target path names: the first command of the tree
\* with that name (0: none)
Resolve(h, r, path) ==
    LET hits == {a \in Range(h[r].successors) :
                    h[a].kind = "Command" /\ h[a].name = path}
    IN  IF hits = {} THEN 0 ELSE CHOOSE a \in hits : \A b \in hits : a <= b

\* the call of a handler with the bound values (None: there is no handler)
Call(handler, bindings) ==
    IF handler = None THEN None
    ELSE Some([handler |-> handler.some, bindings |-> bindings])

\* the call execute makes: the handler of the matched command, or of the
\* command a matched wrapper's target resolves to, with this parse's
\* bindings (None: a no-op)
execute(h, r, ps) ==
    IF ps.matched = 0 THEN None
    ELSE LET target == IF h[ps.matched].kind = "Wrapper"
                       THEN Resolve(h, r, h[ps.matched].target)
                       ELSE ps.matched
         IN  IF target = 0 THEN None
             ELSE Call(h[target].handler, ps.bindings)

-----------------------------------------------------------------------------
(* The inputs the specifications draw from *)

CommandNames == {sShow, sShowall}

Priorities == {PRIORITY_DEFAULT, PRIORITY_DEFAULT + 1}

\* the tokens of the lines typed against a tree of commands
CommandTokens == {sSh, sShow, sShowall, sFoo}

\* the description a chain of builder calls ends with:
\* Parameter::new(name).kind(kind).required(..).repeatable(..)[.alias(..)].finalize()
Described(name, kind, required, repeatable, aliases) ==
    LET p0 == ParameterKind(ParameterNew(name), kind)
        p1 == ParameterRequired(p0, required)
        p2 == ParameterRepeatable(p1, repeatable)
        p3 == IF aliases = <<>> THEN p2 ELSE ParameterAlias(p2, aliases[1])
    IN  ParameterFinalize(p3)

\* plain, required, repeatable
Modes == {<<FALSE, FALSE>>, <<TRUE, FALSE>>, <<FALSE, TRUE>>}

\* the parameters `set` may be given: --level <value>, --verbose and the
\* positional target
ParameterDescs ==
    {Described(sLevel, "Named", m[1], m[2], <<>>) : m \in Modes}
    \cup {Described(sVerbose, "Flag", m[1], m[2], <<>>) : m \in Modes}
    \cup {Described(sTarget, "Simple", m[1], m[2], <<>>) : m \in Modes}

\* the tokens that follow `set`
ParameterTokens == {sLevel, sVerbose, sA}

\* parameters with and without an alias: --verbose (-v), --level <value> (-l)
AliasDescs ==
    {Described(sVerbose, "Flag", FALSE, FALSE, al) : al \in {<<>>, <<sV>>}}
    \cup {Described(sLevel, "Named", FALSE, FALSE, al) : al \in {<<>>, <<sL>>}}

AliasTokens == {sVerbose, sV, sLevel, sL, sA}

-----------------------------------------------------------------------------
(* The history variable: off, or on and empty; what it records *)

LogOff == [on |-> FALSE, parses |-> <<>>, calls |-> <<>>]

LogOn == [on |-> TRUE, parses |-> <<>>, calls |-> <<>>]

RecordParse(l, outcome) ==
    IF l.on THEN [l EXCEPT !.parses = Append(@, outcome)] ELSE l

RecordCall(l, call) ==
    IF l.on THEN [l EXCEPT !.calls = Append(@, call)] ELSE l

-----------------------------------------------------------------------------
(* Actions: the builder calls main makes before the loop *)

\* Command::new(name)
NewCommand(name) ==
    /\ pc = "build"
    /\ cmd = None
    /\ Len(commands) < MaxCommands
    /\ cmd' = CommandNew(name)
    /\ UNCHANGED <<commands, heap, root, pc, line, tokens, parser, result, stages, param, log>>

\* .hidden(hidden)
SetHidden(hidden) ==
    /\ pc = "build"
    /\ cmd # None
    /\ cmd' = CommandHidden(cmd, hidden)
    /\ UNCHANGED <<commands, heap, root, pc, line, tokens, parser, result, stages, param, log>>

\* .priority(priority)
SetPriority(priority) ==
    /\ pc = "build"
    /\ cmd # None
    /\ cmd' = CommandPriority(cmd, priority)
    /\ log' = RecordCall(log, [op |-> "Command::priority", priority |-> priority])
    /\ UNCHANGED <<commands, heap, root, pc, line, tokens, parser, result, stages, param>>

\* .wraps(wrapped_root)
SetWraps(wrapped_root) ==
    /\ pc = "build"
    /\ cmd # None
    /\ cmd' = CommandWraps(cmd, wrapped_root)
    /\ UNCHANGED <<commands, heap, root, pc, line, tokens, parser, result, stages, param, log>>

\* .parameter(parameter)
AddParameter(parameter) ==
    /\ pc = "build"
    /\ cmd # None
    /\ Len(cmd.parameters) < MaxParams
    /\ cmd' = CommandParameter(cmd, parameter)
    /\ UNCHANGED <<commands, heap, root, pc, line, tokens, parser, result, stages, param, log>>

\* Parameter::new(name)
NewParameter(name) ==
    /\ pc = "build"
    /\ cmd # None
    /\ param = None
    /\ param' = ParameterNew(name)
    /\ UNCHANGED <<commands, cmd, heap, root, pc, line, tokens, parser, result, stages, log>>

\* .kind(kind) on the parameter
SetParameterKind(kind) ==
    /\ pc = "build"
    /\ param # None
    /\ param' = ParameterKind(param, kind)
    /\ log' = RecordCall(log, [op |-> "Parameter::kind", kind |-> kind])
    /\ UNCHANGED <<commands, cmd, heap, root, pc, line, tokens, parser, result, stages>>

\* .priority(priority) on the parameter
SetParameterPriority(priority) ==
    /\ pc = "build"
    /\ param # None
    /\ param' = ParameterPriority(param, priority)
    /\ log' = RecordCall(log, [op |-> "Parameter::priority", priority |-> priority])
    /\ UNCHANGED <<commands, cmd, heap, root, pc, line, tokens, parser, result, stages>>

\* cmd.parameter(param.finalize())
FinishParameter ==
    /\ pc = "build"
    /\ cmd # None
    /\ param # None
    /\ Len(cmd.parameters) < MaxParams
    /\ cmd' = CommandParameter(cmd, ParameterFinalize(param))
    /\ param' = None
    /\ UNCHANGED <<commands, heap, root, pc, line, tokens, parser, result, stages, log>>

\* tree.command(cmd.finalize()): the description moves into the tree
TreeCommand ==
    /\ pc = "build"
    /\ cmd # None
    /\ commands' = Append(commands, CommandFinalize(cmd))
    /\ cmd' = None
    /\ UNCHANGED <<heap, root, pc, line, tokens, parser, result, stages, param, log>>

\* tree.command(cmd.finalize()) with cmd kept: finalize hands the tree a
\* clone, and the description stays with the caller
TreeCommandKept ==
    /\ pc = "build"
    /\ cmd # None
    /\ commands' = Append(commands, CommandFinalize(cmd))
    /\ UNCHANGED <<cmd, heap, root, pc, line, tokens, parser, result, stages, param, log>>

\* the roots finalize has returned
Roots(h) == {a \in DOMAIN h : h[a].kind = "Root"}

\* root = tree.finalize() with the tree described further afterwards
TreeRefinalize ==
    /\ pc = "build"
    /\ Cardinality(Roots(heap)) < MaxRoots
    /\ LET r == finalize(heap, commands)
       IN  /\ heap' = r.heap
           /\ root' = r.addr
    /\ UNCHANGED <<commands, cmd, pc, line, tokens, parser, result, stages, param, log>>

\* let root = tree.finalize()
TreeFinalize ==
    /\ pc = "build"
    /\ cmd = None
    /\ LET r == finalize(heap, commands)
       IN  /\ heap' = r.heap
           /\ root' = r.addr
    /\ pc' = "prompt"
    /\ UNCHANGED <<commands, cmd, line, tokens, parser, result, stages, param, log>>

-----------------------------------------------------------------------------
(* Actions: the loop of main *)

\* readline returned Ok(raw)
ReadLine(raw) ==
    /\ pc = "prompt"
    /\ line' = raw
    /\ pc' = "tokenize"
    /\ UNCHANGED <<commands, cmd, heap, root, tokens, parser, result, stages, param, log>>

\* readline returned Err: the loop ends
ReadEof ==
    /\ pc = "prompt"
    /\ pc' = "done"
    /\ UNCHANGED <<commands, cmd, heap, root, line, tokens, parser, result, stages, param, log>>

\* print!("\n") ends the iteration; s, tokens and parser go out of scope
EndLine ==
    /\ pc = "newline"
    /\ line' = <<>>
    /\ tokens' = <<>>
    /\ parser' = None
    /\ result' = None
    /\ stages' = <<>>
    /\ pc' = "prompt"
    /\ UNCHANGED <<commands, cmd, heap, root, param, log>>

\* Tokenize that goes on with the parser of the line before, when there was
\* one, instead of a new one
Tokenize_reuse ==
    /\ pc = "tokenize"
    /\ LET r == tokenize(line)
       IN  /\ stages' = Append(stages, [stage |-> "tokenize", ok |-> r.ok])
           /\ IF r.ok
              THEN /\ tokens' = r.tokens
                   /\ parser' = IF log.parses = <<>> THEN ParserNew(heap, root)
                                ELSE log.parses[Len(log.parses)].state
                   /\ result' = None
                   /\ pc' = "parse"
              ELSE /\ result' = [error |-> "Tokenize"]
                   /\ pc' = "newline"
                   /\ UNCHANGED <<tokens, parser>>
    /\ UNCHANGED <<commands, cmd, heap, root, line, param, log>>

\* if let Ok(tokens) = tokenize(&*s), then Parser::new(root.clone())
Tokenize ==
    /\ pc = "tokenize"
    /\ LET r == tokenize(line)
       IN  /\ stages' = Append(stages, [stage |-> "tokenize", ok |-> r.ok])
           /\ IF r.ok
              THEN /\ tokens' = r.tokens
                   /\ parser' = ParserNew(heap, root)
                   /\ result' = None
                   /\ pc' = "parse"
              ELSE /\ result' = [error |-> "Tokenize"]
                   /\ pc' = "newline"
                   /\ UNCHANGED <<tokens, parser>>
    /\ UNCHANGED <<commands, cmd, heap, root, line, param, log>>

\* parser.parse(tokens); the history records the tokens, whether the parse
\* succeeded, the parse state it left and the error it returned
Parse ==
    /\ pc = "parse"
    /\ LET r == parse(heap, parser, tokens)
       IN  /\ stages' = Append(stages, [stage |-> "parse", ok |-> r.ok])
           /\ parser' = r.state
           /\ result' = r.error
           /\ pc' = IF r.ok THEN "verify" ELSE "newline"
           /\ log' = RecordParse(log, [tokens |-> tokens, ok |-> r.ok,
                                       state |-> r.state, error |-> r.error])
    /\ UNCHANGED <<commands, cmd, heap, root, line, tokens, param>>

\* Verify that goes on to execute whatever verify returned
Verify_unchecked ==
    /\ pc = "verify"
    /\ LET r == verify(heap, parser)
       IN  /\ stages' = Append(stages, [stage |-> "verify", ok |-> r.ok])
           /\ result' = r.error
           /\ pc' = "execute"
    /\ UNCHANGED <<commands, cmd, heap, root, line, tokens, parser, param, log>>

\* parser.verify()
Verify ==
    /\ pc = "verify"
    /\ LET r == verify(heap, parser)
       IN  /\ stages' = Append(stages, [stage |-> "verify", ok |-> r.ok])
           /\ result' = r.error
           /\ pc' = IF r.ok THEN "execute" ELSE "newline"
    /\ UNCHANGED <<commands, cmd, heap, root, line, tokens, parser, param, log>>

\* parser.execute()
Execute ==
    /\ pc = "execute"
    /\ stages' = Append(stages, [stage |-> "execute", ok |-> TRUE])
    /\ result' = [executed |-> execute(heap, root, parser)]
    /\ pc' = "newline"
    /\ UNCHANGED <<commands, cmd, heap, root, line, tokens, parser, param, log>>

-----------------------------------------------------------------------------
(* Specifications *)

Blank ==
    /\ heap = <<>>
    /\ root = 0
    /\ pc = "build"
    /\ line = <<>>
    /\ tokens = <<>>
    /\ parser = None
    /\ result = None
    /\ stages = <<>>
    /\ param = None

\* a tree of commands without parameters, as in main: let mut tree = CommandTree::new()
Init ==
    /\ commands = <<>>
    /\ cmd = None
    /\ Blank
    /\ log = LogOff

Next ==
    \/ \E name \in CommandNames : NewCommand(name)
    \/ \E hidden \in BOOLEAN : SetHidden(hidden)
    \/ \E priority \in Priorities : SetPriority(priority)
    \/ TreeCommand
    \/ TreeFinalize
    \/ \E raw \in LinesOver(CommandTokens) : ReadLine(raw)
    \/ ReadEof
    \/ Tokenize
    \/ Parse
    \/ Verify
    \/ Execute
    \/ EndLine

Spec == Init /\ [][Next]_vars

\* one command, set, and the parameters it is given
InitParams ==
    /\ commands = <<>>
    /\ cmd = CommandNew(sSet)
    /\ Blank
    /\ log = LogOff

NextParams ==
    \/ \E parameter \in ParameterDescs : AddParameter(parameter)
    \/ TreeCommand
    \/ TreeFinalize
    \/ \E raw \in LinesFor(sSet, ParameterTokens) : ReadLine(raw)
    \/ ReadEof
    \/ Tokenize
    \/ Parse
    \/ Verify
    \/ Execute
    \/ EndLine

SpecParams == InitParams /\ [][NextParams]_vars

\* the same command with parameters that have aliases
NextAlias ==
    \/ \E parameter \in AliasDescs : AddParameter(parameter)
    \/ TreeCommand
    \/ TreeFinalize
    \/ \E raw \in LinesFor(sSet, AliasTokens) : ReadLine(raw)
    \/ ReadEof
    \/ Tokenize
    \/ Parse
    \/ Verify
    \/ Execute
    \/ EndLine

SpecAlias == InitParams /\ [][NextAlias]_vars

\* the builder alone: commands that wrap another or not, with parameters
BuildDescs ==
    {Described(sLevel, "Named", FALSE, FALSE, <<>>),
     Described(sVerbose, "Flag", FALSE, FALSE, <<>>)}

NextBuild ==
    \/ \E name \in {sShow, sSet} : Len(commands) < MaxBuilt /\ NewCommand(name)
    \/ SetWraps(sShow)
    \/ \E parameter \in BuildDescs : AddParameter(parameter)
    \/ TreeCommand
    \/ TreeFinalize
    \/ ReadEof

SpecBuild == Init /\ [][NextBuild]_vars

\* commands that wrap show or not, and the lines that run them
WrapDescs == {Described(sVerbose, "Flag", FALSE, FALSE, <<>>)}

WrapLines ==
    {JoinTokens(ts) : ts \in {<<>>, <<sShow>>, <<sSet>>, <<sSet, sVerbose>>,
                              <<sShow, sVerbose>>}}

NextWrap ==
    \/ \E name \in {sShow, sSet} : Len(commands) < MaxBuilt /\ NewCommand(name)
    \/ SetWraps(sShow)
    \/ \E parameter \in WrapDescs : AddParameter(parameter)
    \/ TreeCommand
    \/ TreeFinalize
    \/ \E raw \in WrapLines : ReadLine(raw)
    \/ ReadEof
    \/ Tokenize
    \/ Parse
    \/ Verify
    \/ Execute
    \/ EndLine

SpecWrap == Init /\ [][NextWrap]_vars

\* the command set with parameters left at the default priority of their
\* kind or given a priority of their own:
\* Parameter::new(name).kind(kind).repeatable(..)[.priority(..)].finalize()
Prioritized(name, kind, repeatable, priority) ==
    LET p == Described(name, kind, FALSE, repeatable, <<>>)
    IN  ParameterFinalize(IF IsSome(priority)
                          THEN ParameterPriority(p, priority.some) ELSE p)

PriorityOptions == {None, Some(PRIORITY_DEFAULT + 1)}

PriorityDescs ==
    {Prioritized(sLevel, "Named", FALSE, o) : o \in PriorityOptions}
    \cup {Prioritized(sVerbose, "Flag", FALSE, o) : o \in PriorityOptions}
    \cup {Prioritized(sTarget, "Simple", r, o) : r \in BOOLEAN, o \in PriorityOptions}

\* --le abbreviates --level, se abbreviates set
PriorityTokens == {sLevel, sLe, sVerbose, sA}

PriorityLines ==
    {JoinTokens(<<c>> \o ts) : c \in {sSet, sSe}, ts \in SeqsUpTo(PriorityTokens, MaxWords)}
    \cup {sFoo}

NextPriority ==
    \/ \E parameter \in PriorityDescs : AddParameter(parameter)
    \/ TreeCommand
    \/ TreeFinalize
    \/ \E raw \in PriorityLines : ReadLine(raw)
    \/ ReadEof
    \/ Tokenize
    \/ Parse
    \/ Verify
    \/ Execute
    \/ EndLine

SpecPriority == InitParams /\ [][NextPriority]_vars

\* a tree finalized more than once, with commands added and the
\* descriptions changed in between
FrozenDescs == {Described(sVerbose, "Flag", FALSE, FALSE, <<>>)}

NextFrozen ==
    \/ NewCommand(sShow)
    \/ \E hidden \in BOOLEAN : SetHidden(hidden)
    \/ \E parameter \in FrozenDescs : AddParameter(parameter)
    \/ Len(commands) < MaxBuilt /\ TreeCommandKept
    \/ Len(commands) < MaxBuilt /\ TreeCommand
    \/ TreeRefinalize
    \/ TreeFinalize
    \/ ReadEof

SpecFrozen == Init /\ [][NextFrozen]_vars

\* one command with one parameter, described call by call, the calls recorded
InitChain ==
    /\ commands = <<>>
    /\ cmd = None
    /\ Blank
    /\ log = LogOn

NextChain ==
    \/ commands = <<>> /\ NewCommand(sSet)
    \/ \E priority \in Priorities : Len(log.calls) < MaxCalls /\ SetPriority(priority)
    \/ NewParameter(sLevel) /\ cmd.parameters = <<>>
    \/ \E kind \in ParameterKinds : Len(log.calls) < MaxCalls /\ SetParameterKind(kind)
    \/ \E priority \in Priorities :
          Len(log.calls) < MaxCalls /\ SetParameterPriority(priority)
    \/ FinishParameter
    \/ TreeCommand
    \/ TreeFinalize
    \/ ReadEof

SpecChain == InitChain /\ [][NextChain]_vars

\* several lines typed against one tree, the outcome of each parse recorded
RepeatDescs ==
    {Described(sLevel, "Named", TRUE, FALSE, <<>>),
     Described(sVerbose, "Flag", FALSE, TRUE, <<>>),
     Described(sTarget, "Simple", FALSE, FALSE, <<>>)}

RepeatLines ==
    {JoinTokens(ts) : ts \in {<<sSet>>, <<sSet, sVerbose, sVerbose>>,
                              <<sSet, sLevel, sA>>, <<sSet, sLevel>>,
                              <<sSet, sA, sA>>, <<sSh>>}}

NextRepeat ==
    \/ \E parameter \in RepeatDescs : AddParameter(parameter)
    \/ TreeCommand
    \/ TreeFinalize
    \/ \E raw \in RepeatLines : Len(log.parses) < MaxLines /\ ReadLine(raw)
    \/ ReadEof
    \/ Tokenize
    \/ Parse
    \/ Verify
    \/ Execute
    \/ EndLine

InitRepeat ==
    /\ commands = <<>>
    /\ cmd = CommandNew(sSet)
    /\ Blank
    /\ log = LogOn

SpecRepeat == InitRepeat /\ [][NextRepeat]_vars

-----------------------------------------------------------------------------
(* What the properties speak of *)

\* stage `name` ran for the current line
Ran(name) == \E i \in DOMAIN stages : stages[i].stage = name

\* stage `name` ran for the current line and succeeded / failed
Succeeded(name) == \E i \in DOMAIN stages : stages[i].stage = name /\ stages[i].ok

Failed(name) == \E i \in DOMAIN stages : stages[i].stage = name /\ ~stages[i].ok

\* the position in `tokens` of the token the i-th match of the trace was
\* made on: a Named before it took two tokens, any other node one
Pos(i) ==
    i + Cardinality({k \in 1..(i - 1) : heap[parser.trace[k].node].kind = "Named"})

\* the number of matches made on node a
Occurrences(a) == Cardinality({i \in DOMAIN parser.trace : parser.trace[i].node = a})

\* every (frontier, token) the parse of the current line decided, with the
\* position of the token, the node it bound (0: none) and the error it
\* returned (None: none)
Steps ==
    IF ~Ran("parse") THEN {}
    ELSE {[frontier |-> parser.trace[i].frontier, token |-> parser.trace[i].token,
           pos |-> Pos(i), bound |-> parser.trace[i].node, error |-> None] :
            i \in DOMAIN parser.trace}
         \cup (IF Failed("parse")
               THEN LET pos == Pos(Len(parser.trace) + 1)
                    IN  {[frontier |-> parser.frontier, token |-> tokens[pos],
                          pos |-> pos, bound |-> 0, error |-> result]}
               ELSE {})

\* the description the node at address a was built from: the i-th command
\* of the tree for the i-th child of the root, the j-th parameter of that
\* command for the j-th parameter of the command node
IsCommandAt(a) == \E i \in DOMAIN heap[root].successors : heap[root].successors[i] = a

DescOf(a) ==
    LET kids == heap[root].successors
        Holds(i) == \E j \in DOMAIN heap[kids[i]].parameters :
                        heap[kids[i]].parameters[j] = a
    IN  IF IsCommandAt(a)
        THEN commands[CHOOSE i \in DOMAIN kids : kids[i] = a]
        ELSE LET i == CHOOSE i \in DOMAIN kids : Holds(i)
                 j == CHOOSE j \in DOMAIN heap[kids[i]].parameters :
                        heap[kids[i]].parameters[j] = a
             IN  commands[i].parameters[j]

\* the priority the builder was given for a: that of Command::priority or
\* Parameter::priority, or the default of the kind
DeclaredPriority(a) ==
    LET d == DescOf(a)
    IN  IF IsCommandAt(a) THEN d.priority
        ELSE IF IsSome(d.priority) THEN d.priority.some
        ELSE IF d.parameter_kind = "Flag" THEN PRIORITY_DEFAULT
        ELSE PRIORITY_PARAMETER

DeclaredHidden(a) == DescOf(a).hidden

\* the frontier nodes matched through a literal, and the catch-all ones
LiteralNodes(frontier) == {a \in Range(frontier) : heap[a].kind # "Simple"}

SimpleNodes(frontier) == {a \in Range(frontier) : heap[a].kind = "Simple"}

\* the frontier nodes whose name or alias equals the token
ExactNodes(frontier, token) ==
    {a \in LiteralNodes(frontier) :
        \/ heap[a].name = token
        \/ heap[a].kind # "Command" /\ \E i \in DOMAIN heap[a].aliases : heap[a].aliases[i] = token}

\* the frontier nodes one of whose names or aliases starts with the token
PrefixNodes(frontier, token) ==
    {a \in LiteralNodes(frontier) :
        \/ IsPrefix(token, heap[a].name)
        \/ heap[a].kind # "Command" /\ \E i \in DOMAIN heap[a].aliases : IsPrefix(token, heap[a].aliases[i])}

\* the nodes of S have pairwise distinct declared priorities
DistinctPriorities(S) ==
    \A a, b \in S : a # b => DeclaredPriority(a) # DeclaredPriority(b)

\* the nodes of S at the highest declared priority in S
Highest(S) == {a \in S : \A b \in S : DeclaredPriority(b) <= DeclaredPriority(a)}

IsError(e, kind) == "error" \in DOMAIN e /\ e.error = kind

-----------------------------------------------------------------------------
(* C1: when two or more siblings match a token in the same way (all by     *)
(* their exact name, or all by prefix) and the priorities they were given  *)
(* in the builder are pairwise distinct, the parse does not return         *)
(* AmbiguousMatch for that token and binds the sibling with the highest    *)
(* priority, wherever it was declared.  A Simple parameter accepts any     *)
(* token, which is a third way of matching: the frontiers spoken of hold   *)
(* none.                                                                   *)

\* the siblings that match the token in the same way
SameWay(frontier, token) ==
    IF ExactNodes(frontier, token) # {} THEN ExactNodes(frontier, token)
    ELSE PrefixNodes(frontier, token)

C1_PriorityTieBreak ==
    \A s \in Steps :
        LET M == SameWay(s.frontier, s.token)
        IN  (/\ Cardinality(M) >= 2
             /\ DistinctPriorities(M)
             /\ SimpleNodes(s.frontier) = {})
            => /\ ~IsError(s.error, "AmbiguousMatch")
               /\ s.bound \in Highest(M)

\* two siblings matched sh by prefix, and the one declared last won
C1_Witness ==
    \E s \in Steps :
        /\ Cardinality(SameWay(s.frontier, s.token)) >= 2
        /\ DistinctPriorities(SameWay(s.frontier, s.token))
        /\ s.token = sSh
        /\ s.bound = s.frontier[Len(s.frontier)]
        /\ s.bound # s.frontier[1]

-----------------------------------------------------------------------------
(* C2: when more than one candidate for a token sits at the highest        *)
(* priority among the candidates, the parse fails with AmbiguousMatch      *)
(* carrying that token and exactly the candidates tied at that priority,   *)
(* each once; it binds none of them.                                       *)

\* the candidates: the siblings matching through a literal, and every
\* catch-all sibling no literal match of equal or higher priority outranks
CandidateNodes(frontier, token) ==
    SameWay(frontier, token)
    \cup {x \in SimpleNodes(frontier) :
            \A l \in SameWay(frontier, token) :
                DeclaredPriority(l) < DeclaredPriority(x)}

C2_TieIsAmbiguous ==
    \A s \in Steps :
        LET T == Highest(CandidateNodes(s.frontier, s.token))
        IN  Cardinality(T) > 1
            => /\ IsError(s.error, "AmbiguousMatch")
               /\ s.error.token = s.token
               /\ Range(s.error.nodes) = T
               /\ Len(s.error.nodes) = Cardinality(T)
               /\ s.bound = 0

\* three candidates for sh, two of them tied above the third
C2_Witness ==
    \E s \in Steps :
        /\ s.token = sSh
        /\ IsError(s.error, "AmbiguousMatch")
        /\ Cardinality(CandidateNodes(s.frontier, s.token)) = 3
        /\ Len(s.error.nodes) = 2

-----------------------------------------------------------------------------
(* C3: when the name (or an alias) of a frontier node equals the token, no *)
(* node that matches the token only by prefix is a candidate: none is      *)
(* bound and none is listed as tied, the outcome is not NoMatches for the  *)
(* token, and a single exact match that no catch-all competes with is the  *)
(* node bound, whatever the priority of the siblings the token is a        *)
(* prefix of.                                                              *)

PrefixOnly(frontier, token) ==
    PrefixNodes(frontier, token) \ ExactNodes(frontier, token)

C3_ExactBeforePrefix ==
    \A s \in Steps :
        LET E == ExactNodes(s.frontier, s.token)
        IN  E # {}
            => /\ s.bound \notin PrefixOnly(s.frontier, s.token)
               /\ IsError(s.error, "AmbiguousMatch")
                    => Range(s.error.nodes) \cap PrefixOnly(s.frontier, s.token) = {}
               /\ ~(IsError(s.error, "NoMatches") /\ s.error.token = s.token)
               /\ (Cardinality(E) = 1 /\ SimpleNodes(s.frontier) = {}
                   /\ ~IsError(s.error, "NoMatches"))
                    => s.bound \in E

\* show is bound on the token show although showall, which show is a prefix
\* of, has a higher priority
C3_Witness ==
    \E s \in Steps :
        /\ s.token = sShow
        /\ s.bound # 0
        /\ heap[s.bound].name = sShow
        /\ \E a \in PrefixOnly(s.frontier, s.token) :
              DeclaredPriority(a) > DeclaredPriority(s.bound)

-----------------------------------------------------------------------------
(* C4: when no frontier node is a candidate for a token, the parse fails   *)
(* with NoMatches carrying that token and the frontier nodes not declared  *)
(* hidden, each once and no hidden one, by priority descending and within  *)
(* equal priority by name ascending.                                       *)

\* the listing s is ordered: priority descending, then name ascending
Ordered(s) ==
    \A i, j \in DOMAIN s :
        i < j => \/ DeclaredPriority(s[i]) > DeclaredPriority(s[j])
                 \/ /\ DeclaredPriority(s[i]) = DeclaredPriority(s[j])
                    /\ ~StrLess(heap[s[j]].name, heap[s[i]].name)

C4_NoMatchesListing ==
    \A s \in Steps :
        CandidateNodes(s.frontier, s.token) = {}
        => /\ IsError(s.error, "NoMatches")
           /\ s.error.token = s.token
           /\ Range(s.error.nodes) = {a \in Range(s.frontier) : ~DeclaredHidden(a)}
           /\ Len(s.error.nodes) = Cardinality(Range(s.error.nodes))
           /\ Ordered(s.error.nodes)

\* foo matches nothing; one node is hidden, and the two listed were declared
\* in the other order
C4_Witness ==
    \E s \in Steps :
        /\ s.token = sFoo
        /\ IsError(s.error, "NoMatches")
        /\ Len(s.frontier) = 3
        /\ Len(s.error.nodes) = 2
        /\ \E i, j \in DOMAIN s.frontier :
              i < j /\ s.error.nodes = <<s.frontier[j], s.frontier[i]>>

-----------------------------------------------------------------------------
(* C5: after a successful parse that matched a command, verify fails with  *)
(* MissingRequired carrying the names of the parameters declared required  *)
(* that no token was bound to, in the order they were added to the         *)
(* command, and succeeds exactly when there is none; a required parameter  *)
(* the parse never reached is among them.                                  *)

\* the names of the parameters of description d, built as the parameters of
\* the command node c, that are declared required and were never matched
UnboundRequired(d, c) ==
    LET idx == SelectSeq([j \in DOMAIN d.parameters |-> j],
                         LAMBDA j : /\ d.parameters[j].required
                                    /\ Occurrences(heap[c].parameters[j]) = 0)
    IN  [k \in DOMAIN idx |-> d.parameters[idx[k]].name]

C5_VerifyMissingRequired ==
    (Ran("verify") /\ parser.matched # 0)
    => LET missing == UnboundRequired(DescOf(parser.matched), parser.matched)
       IN  IF missing = <<>> THEN Succeeded("verify")
           ELSE /\ Failed("verify")
                /\ result = [error |-> "MissingRequired", names |-> missing]

\* set --verbose parses, and verify reports exactly --level
C5_Witness ==
    /\ tokens = <<sSet, sVerbose>>
    /\ Succeeded("parse")
    /\ Failed("verify")
    /\ Len(parser.trace) = 2
    /\ result = [error |-> "MissingRequired", names |-> <<sLevel>>]

-----------------------------------------------------------------------------
(* C6: in a successful parse, a parameter declared repeatable that was     *)
(* matched N >= 1 times has, under its name, exactly the N values of its   *)
(* occurrences in the order of the tokens: the token itself for a Simple,  *)
(* the token that follows for a Named, the presence marker for a Flag.     *)

\* the value the i-th match of the trace stands for, read from the tokens
ValueAt(i) ==
    LET kind == DescOf(parser.trace[i].node).parameter_kind
    IN  CASE kind = "Flag" -> [flag |-> TRUE]
          [] kind = "Named" -> [text |-> tokens[Pos(i) + 1]]
          [] kind = "Simple" -> [text |-> tokens[Pos(i)]]

\* the matches of the trace made on node a, in order
MatchesOf(a) ==
    SelectSeq([i \in DOMAIN parser.trace |-> i], LAMBDA i : parser.trace[i].node = a)

\* the parameter nodes matched by the parse
MatchedParameters ==
    {parser.trace[i].node : i \in DOMAIN parser.trace} \ {parser.matched}

C6_RepeatableAccumulates ==
    Succeeded("parse")
    => \A a \in MatchedParameters :
          DescOf(a).repeatable
          => /\ DescOf(a).name \in DOMAIN parser.bindings
             /\ parser.bindings[DescOf(a).name]
                  = [k \in DOMAIN MatchesOf(a) |-> ValueAt(MatchesOf(a)[k])]

\* a repeatable parameter matched at least twice, on two different values
C6_Witness ==
    /\ Succeeded("parse")
    /\ \E a \in MatchedParameters :
          /\ DescOf(a).repeatable
          /\ Occurrences(a) >= 2
          /\ Len(parser.bindings[DescOf(a).name]) = Occurrences(a)
          /\ parser.bindings[DescOf(a).name][1] # parser.bindings[DescOf(a).name][2]

-----------------------------------------------------------------------------
(* C7: when the last token of the line selects a parameter declared Named, *)
(* so that no value token follows it, the parse fails with NoMatches and   *)
(* binds nothing for that token: not an empty value, not a flag.           *)

\* the step selects a parameter declared Named: it is the one candidate at
\* the highest priority
SelectsNamed(s) ==
    LET T == Highest(CandidateNodes(s.frontier, s.token))
    IN  /\ Cardinality(T) = 1
        /\ \A a \in T : ~IsCommandAt(a) /\ DescOf(a).parameter_kind = "Named"

C7_NamedNeedsValue ==
    \A s \in Steps :
        (s.pos = Len(tokens) /\ SelectsNamed(s))
        => /\ IsError(s.error, "NoMatches")
           /\ s.bound = 0
           /\ Failed("parse")

\* set --level: the parse fails with NoMatches
C7_Witness ==
    /\ tokens = <<sSet, sLevel>>
    /\ Failed("parse")
    /\ IsError(result, "NoMatches")
    /\ \E s \in Steps : s.pos = 2 /\ SelectsNamed(s)

-----------------------------------------------------------------------------
(* C8: for every line, the stages that run are tokenize, parse, verify and *)
(* execute in that order, each at most once and each only if the stage     *)
(* before it succeeded; after a failed stage (a tokenizer error,           *)
(* NoMatches, AmbiguousMatch, MissingRequired) no later stage runs for     *)
(* that line and main is at the end of the iteration.                      *)

Pipeline == <<"tokenize", "parse", "verify", "execute">>

C8_ShortCircuit ==
    /\ Len(stages) <= Len(Pipeline)
    /\ \A i \in DOMAIN stages :
          /\ stages[i].stage = Pipeline[i]
          /\ i > 1 => stages[i - 1].ok
    /\ \A i \in DOMAIN stages :
          ~stages[i].ok => /\ i = Len(stages)
                           /\ pc = "newline"
                           /\ "error" \in DOMAIN result
    /\ Failed("parse") => result.error \in {"NoMatches", "AmbiguousMatch"}
    /\ Failed("verify") => result.error = "MissingRequired"

\* verify failed with MissingRequired and execute was skipped
C8_Witness ==
    /\ Failed("verify")
    /\ IsError(result, "MissingRequired")
    /\ ~Ran("execute")
    /\ pc = "newline"

-----------------------------------------------------------------------------
(* C9: finalize builds, for every description on which wraps(path) was     *)
(* called, a Wrapper node carrying that path as its target, and a Command  *)
(* node for every other description.                                       *)

C9_WrapsBuildsWrapper ==
    root # 0
    => \A i \in DOMAIN commands :
          LET n == heap[heap[root].successors[i]]
          IN  IF IsSome(commands[i].wrapped_root)
              THEN /\ n.kind = "Wrapper"
                   /\ "target" \in DOMAIN n
                   /\ n.target = commands[i].wrapped_root.some
              ELSE n.kind = "Command"

-----------------------------------------------------------------------------
(* C10: a token equal to an alias given to a parameter through             *)
(* Parameter.alias matches that parameter as a token equal to its name     *)
(* does: the line with the alias after the command word parses as the line *)
(* with the name in its place, to the same nodes and the same bindings.    *)

\* the nodes of the matches of a trace
NodesOf(trace) == [i \in DOMAIN trace |-> trace[i].node]

C10_AliasMatchesAsName ==
    (Ran("parse") /\ Len(tokens) >= 2 /\ parser.matched # 0)
    => \A d \in Range(DescOf(parser.matched).parameters) :
          tokens[2] \in Range(d.aliases)
          => LET named == parse(heap, ParserNew(heap, root),
                                [tokens EXCEPT ![2] = d.name])
             IN  /\ Succeeded("parse") = named.ok
                 /\ parser.bindings = named.state.bindings
                 /\ NodesOf(parser.trace) = NodesOf(named.state.trace)

-----------------------------------------------------------------------------
(* C11: against one frozen tree, any two parses of the same token sequence *)
(* have the same outcome, whichever came first and whatever was parsed in  *)
(* between: both succeed with the same matched command and the same        *)
(* bindings, or both fail with the same error, token and list of nodes.    *)

SameOutcome(x, y) ==
    /\ x.ok = y.ok
    /\ x.state.matched = y.state.matched
    /\ x.state.bindings = y.state.bindings
    /\ x.error = y.error

-----------------------------------------------------------------------------
(* C12: a token that equals no name or alias in the frontier and is a      *)
(* proper prefix of the name of exactly one frontier node matches that     *)
(* node, and the line parses as it does with the full name in the token's  *)
(* place; a token that neither equals nor is a prefix of any literal of a  *)
(* frontier without Simple parameter fails the parse with NoMatches for    *)
(* that token.                                                             *)

\* the parse of the current line with `name` in the place of token pos
Respelled(pos, name) ==
    parse(heap, ParserNew(heap, root), [tokens EXCEPT ![pos] = name])

\* the parse of the current line and parse r came out the same
SameResult(r) ==
    /\ Succeeded("parse") = r.ok
    /\ parser.matched = r.state.matched
    /\ parser.bindings = r.state.bindings
    /\ NodesOf(parser.trace) = NodesOf(r.state.trace)
    /\ r.ok \/ result.error = r.error.error

\* step s matched node a, or selected it and failed for want of its value
MatchedOrSelected(s, a) ==
    \/ s.bound = a
    \/ /\ DescOf(a).parameter_kind = "Named"
       /\ ~IsCommandAt(a)
       /\ s.pos = Len(tokens)
       /\ IsError(s.error, "NoMatches")

\* the token of step s abbreviates exactly one frontier node, a
AbbreviatesOnly(s, a) ==
    /\ ExactNodes(s.frontier, s.token) = {}
    /\ {x \in Range(s.frontier) : IsPrefix(s.token, heap[x].name)} = {a}

NothingMatches(s) ==
    /\ PrefixNodes(s.frontier, s.token) = {}
    /\ SimpleNodes(s.frontier) = {}

C12_UniquePrefixMatches ==
    \A s \in Steps :
        /\ \A a \in LiteralNodes(s.frontier) :
              AbbreviatesOnly(s, a)
              => /\ MatchedOrSelected(s, a)
                 /\ SameResult(Respelled(s.pos, heap[a].name))
        /\ NothingMatches(s)
              => /\ IsError(s.error, "NoMatches")
                 /\ s.error.token = s.token
                 /\ s.bound = 0
\* C12 as amended: the node the token abbreviates is matched when no Simple
\* parameter of the frontier was given a priority above that node's; a
\* Simple parameter of higher priority takes the token as its value.
NotOutranked(s, a) ==
    \A x \in SimpleNodes(s.frontier) : DeclaredPriority(x) <= DeclaredPriority(a)

C12_UniquePrefixUnlessOutranked ==
    \A s \in Steps :
        /\ \A a \in LiteralNodes(s.frontier) :
              (AbbreviatesOnly(s, a) /\ NotOutranked(s, a))
              => /\ MatchedOrSelected(s, a)
                 /\ SameResult(Respelled(s.pos, heap[a].name))
        /\ NothingMatches(s)
              => /\ IsError(s.error, "NoMatches")
                 /\ s.error.token = s.token
                 /\ s.bound = 0

\* se --le a: se matched set and --le matched --level, bound to a, beside a
\* Simple parameter of the same priority
C12_Witness ==
    /\ tokens = <<sSe, sLe, sA>>
    /\ Succeeded("parse")
    /\ \E s \in Steps :
          /\ s.token = sLe
          /\ s.bound # 0
          /\ heap[s.bound].name = sLevel
          /\ SimpleNodes(s.frontier) # {}
          /\ NotOutranked(s, s.bound)
    /\ parser.bindings = Respelled(2, sLevel).state.bindings
-----------------------------------------------------------------------------
(* C13: a node declared hidden is a candidate as a visible one is: alone   *)
(* at the highest priority among the candidates it is matched, tied there  *)
(* with a visible sibling it makes the parse fail with AmbiguousMatch; and *)
(* no node declared hidden is in the list a NoMatches or an AmbiguousMatch *)
(* error carries.                                                          *)

HiddenNodes(S) == {a \in S : DeclaredHidden(a)}

C13_HiddenMatchedNeverListed ==
    \A s \in Steps :
        LET T == Highest(CandidateNodes(s.frontier, s.token))
        IN  /\ (Cardinality(T) = 1 /\ HiddenNodes(T) = T)
               => \A a \in T : MatchedOrSelected(s, a)
            /\ (HiddenNodes(T) # {} /\ T \ HiddenNodes(T) # {})
               => IsError(s.error, "AmbiguousMatch")
            /\ (IsError(s.error, "NoMatches") \/ IsError(s.error, "AmbiguousMatch"))
               => HiddenNodes(Range(s.error.nodes)) = {}
-----------------------------------------------------------------------------
(* C14: execute runs on a verified parse only and makes at most one call:  *)
(* of the handler of the matched command or, when the matched command was  *)
(* described as wrapping another, of the handler of the command of that    *)
(* name in the same tree, with the bindings of this parse; with no handler *)
(* there, it calls nothing, reports no error and leaves the parse state    *)
(* as the parse left it.                                                   *)

\* the command whose handler a match of command node a is to run: the
\* command of the tree that a was described as wrapping, or a itself
TargetOf(a) ==
    IF IsSome(DescOf(a).wrapped_root)
    THEN Resolve(heap, root, DescOf(a).wrapped_root.some)
    ELSE a

-----------------------------------------------------------------------------
(* C15: the node built from a parameter description has the priority of    *)
(* the last Parameter.priority call made on it; when none was made it has  *)
(* PRIORITY_DEFAULT if the kind last set is Flag and PRIORITY_PARAMETER if *)
(* it is Named or Simple (Simple when no kind was set), whether kind was   *)
(* called before or after priority.  A command node has the priority of    *)
(* the last Command.priority call, and PRIORITY_DEFAULT when none was made. *)

CallsOf(op) == SelectSeq(log.calls, LAMBDA c : c.op = op)

Last(s) == s[Len(s)]

KindCalled ==
    IF CallsOf("Parameter::kind") = <<>> THEN "Simple"
    ELSE Last(CallsOf("Parameter::kind")).kind

ParameterPriorityCalled ==
    IF CallsOf("Parameter::priority") # <<>>
    THEN Last(CallsOf("Parameter::priority")).priority
    ELSE IF KindCalled = "Flag" THEN PRIORITY_DEFAULT
    ELSE PRIORITY_PARAMETER

CommandPriorityCalled ==
    IF CallsOf("Command::priority") # <<>>
    THEN Last(CallsOf("Command::priority")).priority
    ELSE PRIORITY_DEFAULT

C15_PriorityDefaults ==
    (root # 0 /\ commands # <<>>)
    => LET c == heap[heap[root].successors[1]]
       IN  /\ c.priority = CommandPriorityCalled
           /\ c.parameters # <<>>
              => /\ heap[c.parameters[1]].kind = KindCalled
                 /\ heap[c.parameters[1]].priority = ParameterPriorityCalled

\* priority was called twice and then kind: the node is a Flag with the
\* priority of the second call, which is not the default of a Flag
C15_Witness ==
    /\ root # 0
    /\ commands # <<>>
    /\ heap[heap[root].successors[1]].parameters # <<>>
    /\ log.calls = <<[op |-> "Parameter::priority", priority |-> PRIORITY_DEFAULT],
                     [op |-> "Parameter::priority", priority |-> PRIORITY_DEFAULT + 1],
                     [op |-> "Parameter::kind", kind |-> "Flag"]>>
    /\ heap[heap[heap[root].successors[1]].parameters[1]].priority = PRIORITY_DEFAULT + 1
-----------------------------------------------------------------------------
(* C16: for the command a parse matched and the bindings B' it made, every *)
(* parameter verify reports missing on B' it also reports missing on any   *)
(* B that B' extends (B' restricted to some of its names), so that adding  *)
(* bindings never makes a parameter missing; and verify leaves the parse   *)
(* state as the parse left it.                                             *)

\* parse state ps with only the bindings of the names in D
Restrict(ps, D) == [ps EXCEPT !.bindings = [x \in D |-> ps.bindings[x]]]

C16_VerifyMonotonic ==
    (Ran("verify") /\ parser.matched # 0)
    => /\ \A D \in SUBSET DOMAIN parser.bindings :
             Range(MissingRequiredNames(heap, parser))
                \subseteq Range(MissingRequiredNames(heap, Restrict(parser, D)))
       /\ parser = parse(heap, ParserNew(heap, root), tokens).state

\* verify passed with two parameters bound, and fails with MissingRequired
\* once the binding of one of them is taken away
C16_Witness ==
    /\ Succeeded("verify")
    /\ parser.matched # 0
    /\ Cardinality(DOMAIN parser.bindings) = 2
    /\ \E x \in DOMAIN parser.bindings :
          ~verify(heap, Restrict(parser, DOMAIN parser.bindings \ {x})).ok
-----------------------------------------------------------------------------
(* C17: a root finalize returned stays as it is: whatever is called next   *)
(* (CommandTree.command, setters on the descriptions, finalize again),     *)
(* every node allocated so far keeps its contents, so the root keeps its   *)
(* commands, their order, parameters and attributes; and the root a call   *)
(* of finalize returns has the commands the tree holds at that call.       *)

\* root r of heap h has the commands cs, in order, with their attributes
\* and their parameters
Reflects(h, r, cs) ==
    /\ Len(h[r].successors) = Len(cs)
    /\ \A i \in DOMAIN cs :
          LET n == h[h[r].successors[i]]
          IN  /\ n.name = cs[i].name
              /\ n.hidden = cs[i].hidden
              /\ n.priority = cs[i].priority
              /\ Len(n.parameters) = Len(cs[i].parameters)
              /\ \A j \in DOMAIN cs[i].parameters :
                    h[n.parameters[j]].name = cs[i].parameters[j].name

C17_RootFrozen ==
    [][/\ \A a \in DOMAIN heap : a \in DOMAIN heap' /\ heap'[a] = heap[a]
       /\ root' # root => Reflects(heap', root', commands')]_vars

\* two roots of one tree: the later has a command more, a hidden one,
\* described by changing the description the first command was cloned from
C17_Witness ==
    \E a, b \in Roots(heap) :
        /\ a < b
        /\ Len(heap[a].successors) = 1
        /\ Len(heap[b].successors) = 2
        /\ ~heap[heap[a].successors[1]].hidden
        /\ heap[heap[b].successors[2]].hidden
        /\ cmd # None
        /\ cmd = commands[2]
        /\ cmd # commands[1]
-----------------------------------------------------------------------------
(* C18: in every parse state, a parameter not declared repeatable that was *)
(* matched has been matched once, so one value was bound to it; from its   *)
(* match on it is in no frontier of that parse, so no later token binds it *)
(* again.  The bindings, kept by name, hold under its name that one value, *)
(* unless another parameter of the same name was matched too.              *)

\* the index in the trace of the first match of node a
FirstMatch(a) == MatchesOf(a)[1]

C18_NonRepeatableOnce ==
    Ran("parse")
    => \A a \in MatchedParameters :
          ~DescOf(a).repeatable
          => /\ Occurrences(a) = 1
             /\ DescOf(a).name \in DOMAIN parser.bindings
             /\ (\A b \in MatchedParameters \ {a} : DescOf(b).name # DescOf(a).name)
                  => parser.bindings[DescOf(a).name] = <<ValueAt(FirstMatch(a))>>
             /\ \A s \in Steps : s.pos > Pos(FirstMatch(a)) => a \notin Range(s.frontier)
             /\ a \notin Range(parser.frontier)

\* set --verbose --verbose with --verbose not repeatable: the first is
\* matched, the second finds it gone and matches nothing
C18_Witness ==
    /\ tokens = <<sSet, sVerbose, sVerbose>>
    /\ Failed("parse")
    /\ IsError(result, "NoMatches")
    /\ result.token = sVerbose
    /\ \E a \in MatchedParameters :
          /\ ~DescOf(a).repeatable
          /\ DescOf(a).name = sVerbose
          /\ parser.bindings[sVerbose] = <<FlagValue>>
-----------------------------------------------------------------------------
(* C19: in a frontier that holds Simple parameters, a token that matches   *)
(* one literal node (a Command, Flag or Named) above the other literal     *)
(* matches, of a priority equal to or higher than that of the Simple       *)
(* parameters, selects that node: the parse does not fail with             *)
(* AmbiguousMatch and no Simple parameter takes the token; so a Named and  *)
(* a Simple parameter left at PRIORITY_PARAMETER do not tie on the name of *)
(* the Named one.  A token that matches no literal node is bound, as its   *)
(* value, to the Simple parameter that stands alone at the highest         *)
(* priority among the Simple ones.  (Literal matches tied with each other  *)
(* are C2's matter, Simple parameters tied with each other too.)           *)

\* the match of the trace made on the token at position pos bound value v
\* to node a
BoundAt(pos, a, v) ==
    \E i \in DOMAIN parser.trace :
        /\ Pos(i) = pos
        /\ parser.trace[i].node = a
        /\ parser.trace[i].value = Some(v)

C19_LiteralOutranksSimple ==
    \A s \in Steps :
        LET L == SameWay(s.frontier, s.token)
            X == SimpleNodes(s.frontier)
            T == Highest(L)
        IN  /\ (/\ X # {}
                /\ Cardinality(T) = 1
                /\ \A l \in T, x \in X : DeclaredPriority(l) >= DeclaredPriority(x))
               => /\ ~IsError(s.error, "AmbiguousMatch")
                  /\ s.bound \notin X
                  /\ \A l \in T : MatchedOrSelected(s, l)
            /\ (L = {} /\ Cardinality(Highest(X)) = 1)
               => /\ s.error = None
                  /\ \A x \in Highest(X) : BoundAt(s.pos, x, TextValue(s.token))

\* set --level a with --level and target both left at PRIORITY_PARAMETER:
\* --level is matched and bound to a, and target is bound to nothing
C19_Witness ==
    /\ tokens = <<sSet, sLevel, sA>>
    /\ Succeeded("parse")
    /\ \E s \in Steps :
          /\ s.token = sLevel
          /\ s.bound # 0
          /\ DescOf(s.bound).parameter_kind = "Named"
          /\ DescOf(s.bound).priority = None
          /\ \E x \in SimpleNodes(s.frontier) : DescOf(x).priority = None
    /\ DOMAIN parser.bindings = {sLevel}
-----------------------------------------------------------------------------
(* C20: in a tree finalize produced, the children of the root are the      *)
(* commands added to the CommandTree, one node each, in the order they     *)
(* were added; and the successor list of every command node is its         *)
(* parameter list: the same node instances at the same positions, one for  *)
(* each parameter added to the description, in the order they were added.  *)

\* the addresses of s are pairwise different
Injective(s) == \A i, j \in DOMAIN s : s[i] = s[j] => i = j

C20_SharedInOrder ==
    root # 0
    => /\ Len(heap[root].successors) = Len(commands)
       /\ Injective(heap[root].successors)
       /\ \A i \in DOMAIN commands :
             LET c == heap[heap[root].successors[i]]
             IN  /\ c.name = commands[i].name
                 /\ c.successors = c.parameters
                 /\ Len(c.parameters) = Len(commands[i].parameters)
                 /\ Injective(c.parameters)
                 /\ \A j \in DOMAIN commands[i].parameters :
                       /\ heap[c.parameters[j]].name = commands[i].parameters[j].name
                       /\ heap[c.parameters[j]].kind = commands[i].parameters[j].parameter_kind

\* set then show, set with --verbose then --level: the nodes come in that
\* order, each parameter node in both lists of set
C20_Witness ==
    /\ root # 0
    /\ Len(commands) = 2
    /\ commands[1].name = sSet
    /\ commands[2].name = sShow
    /\ Len(commands[1].parameters) = 2
    /\ LET c == heap[heap[root].successors[1]]
       IN  /\ Len(c.successors) = 2
           /\ heap[c.successors[1]].name = sVerbose
           /\ heap[c.parameters[2]].name = sLevel
           /\ c.successors[2] = c.parameters[2]
====











